---- MODULE Spec2Model ----
(***************************************************************************)
(* A model of the alfad service supervisor: the per-task driver            *)
(* (core/src/task.rs), the control-plane handler                           *)
(* (core/src/perform_action.rs), the wire format of actions                *)
(* (core/src/action.rs), the signal task (core/src/init.rs), the ordering  *)
(* and the validation of the configuration (core/src/ordering.rs,          *)
(* core/src/validate.rs) and the expansion of environment variables        *)
(* (core/src/command_line/complex.rs).                                     *)
(*                                                                         *)
(* Strings that are parsed or formatted are sequences of one-character     *)
(* strings, so that splitting and concatenation are computed, not assumed. *)
(***************************************************************************)
EXTENDS Integers, Sequences, FiniteSets, TLC

VARIABLES
    cfg,      \* the task configurations (fixed after start-up)
    ctx,      \* name -> TaskContext (state, with, after, pid, respawn_attempts, waker)
    drv,      \* name -> the driver's own Task fields (state, process, dependency cursor)
    pc,       \* name -> where the driver's poll stands: "idle", "loop", "prop"
    woken,    \* name -> the driver has been woken and will be polled
    procs,    \* the operating system's process table: pid -> child process
    cp,       \* the control-plane reader and the handler it is running
    hist,     \* observations of the run (dependencies seen Done or Running, reboot)
    pf        \* the input, intermediate text and output of the wire format (SpecAction)

vars == <<cfg, ctx, drv, pc, woken, procs, cp, hist, pf>>

(***************************************************************************)
(* Bounds of the model.                                                    *)
(***************************************************************************)
MaxLines == 1      \* control lines read in one run
MaxProcs == 3      \* children spawned in one run
MaxWakers == 3     \* wakers kept in one waker list

(***************************************************************************)
(* Strings                                                                 *)
(***************************************************************************)
sp == " "

kw_kill       == <<"k","i","l","l">>
kw_deactivate == <<"d","e","a","c","t","i","v","a","t","e">>
kw_restart    == <<"r","e","s","t","a","r","t">>
kw_start      == <<"s","t","a","r","t">>
kw_system     == <<"s","y","s","t","e","m">>
kw_force      == <<"f","o","r","c","e","-">>
kw_poweroff   == <<"p","o","w","e","r","o","f","f">>
kw_halt       == <<"h","a","l","t">>

RECURSIVE Join(_)
\* the string a sequence of characters spells
Join(s) == IF s = <<>> THEN "" ELSE Head(s) \o Join(Tail(s))

RECURSIVE FindChar(_, _, _)
\* the least index >= i at which character c stands in s, 0 when there is none
FindChar(s, c, i) ==
    IF i > Len(s) THEN 0
    ELSE IF s[i] = c THEN i
    ELSE FindChar(s, c, i + 1)

\* str::split_once(' '): the text before and after the first space
split_once(s) ==
    LET i == FindChar(s, sp, 1)
    IN  IF i = 0 THEN [found |-> FALSE, left |-> <<>>, right |-> <<>>]
        ELSE [found |-> TRUE, left |-> SubSeq(s, 1, i - 1),
              right |-> SubSeq(s, i + 1, Len(s))]

(***************************************************************************)
(* Actions and their wire format (core/src/action.rs)                      *)
(***************************************************************************)
TaskAction(k, t, f) == [k |-> k, task |-> t, force |-> f, command |-> "none"]
SystemAction(c)     == [k |-> "System", task |-> <<>>, force |-> FALSE, command |-> c]

ParseOk(a)  == [ok |-> TRUE, v |-> a, err |-> "none"]
ParseErr(e) == [ok |-> FALSE, v |-> SystemAction("none"), err |-> e]

\* the match on the verb in Action::from_str; payload is the text after the space
FromStrVerb(action, task) ==
    CASE action = kw_kill                     -> ParseOk(TaskAction("Kill", task, FALSE))
      [] action = kw_force \o kw_kill         -> ParseOk(TaskAction("Kill", task, TRUE))
      [] action = kw_deactivate               -> ParseOk(TaskAction("Kill", task, FALSE))
      [] action = kw_force \o kw_deactivate   -> ParseOk(TaskAction("Kill", task, TRUE))
      [] action = kw_restart                  -> ParseOk(TaskAction("Restart", task, FALSE))
      [] action = kw_force \o kw_restart      -> ParseOk(TaskAction("Restart", task, TRUE))
      [] action = kw_start                    -> ParseOk(TaskAction("Start", task, FALSE))
      [] action = kw_force \o kw_start        -> ParseOk(TaskAction("Start", task, TRUE))
      [] action = kw_system ->
            ( CASE task = kw_poweroff -> ParseOk(SystemAction("poweroff"))
                [] task = kw_restart  -> ParseOk(SystemAction("restart"))
                [] task = kw_halt     -> ParseOk(SystemAction("halt"))
                [] OTHER              -> ParseErr("ActionNotFound") )
      [] OTHER -> ParseErr("ActionNotFound")

\* <Action as FromStr>::from_str
from_str(s) ==
    LET c == split_once(s)
    IN  IF c.found THEN FromStrVerb(c.left, c.right)
        ELSE ParseErr("SyntaxError")

\* <SystemCommand as Display>::fmt (strum, snake_case)
FmtSystemCommand(c) ==
    CASE c = "poweroff" -> kw_poweroff
      [] c = "restart"  -> kw_restart
      [] c = "halt"     -> kw_halt

\* <Action as Display>::fmt: the writes to the formatter, in order
to_string(a) ==
    LET force == IF a.force THEN kw_force ELSE <<>>
    IN  CASE a.k = "Kill"       -> force \o kw_kill \o <<sp>> \o a.task
          [] a.k = "Deactivate" -> force \o kw_deactivate \o <<sp>> \o a.task
          [] a.k = "Start"      -> force \o kw_start \o a.task
          [] a.k = "Restart"    -> force \o kw_restart \o <<sp>> \o a.task
          [] a.k = "System"     -> kw_system \o <<sp>> \o FmtSystemCommand(a.command)

(***************************************************************************)
(* Task states (core/src/task.rs, enum TaskState).  The control plane      *)
(* writes Concluded(reason); reason r is the flat state of the same name.  *)
(***************************************************************************)
St(k)       == [k |-> k, i |-> 0]
Running(i)  == [k |-> "Running", i |-> i]
Waiting     == St("Waiting")
Starting    == St("Starting")
Done        == St("Done")
Failed      == St("Failed")
Terminating == St("Terminating")
Terminated  == St("Terminated")
Deactivated == St("Deactivated")
Created     == St("Created")
Concluded(reason) == St(reason)

\* TaskState::has_concluded
has_concluded(s) == s.k \in {"Done", "Failed", "Terminated", "Deactivated"}
\* TaskState::is_waiting
is_waiting(s) == s.k = "Waiting"

(***************************************************************************)
(* Configurations (struct TaskConfig, enum Respawn).  A command line is    *)
(* named by what it does when spawned:                                     *)
(*   "ok"     runs and exits with success                                  *)
(*   "fail"   runs and exits with failure                                  *)
(*   "daemon" runs until it is signalled                                   *)
(*   "empty"  has no program (CommandLineError::EmptyCommand)              *)
(*   "bad"    cannot be spawned (any other spawn error)                    *)
(***************************************************************************)
RespawnNo      == [k |-> "No", amount |-> 0]
Retry(amount)  == [k |-> "Retry", amount |-> amount]

TaskConfig(cmd, after, with, respawn) ==
    [cmd |-> cmd, after |-> after, with |-> with, respawn |-> respawn]

\* the long-running b runs after a
ScChain ==
    [t \in {"a", "b"} |->
        IF t = "a" THEN TaskConfig(<<"ok">>, <<>>, <<>>, RespawnNo)
        ELSE TaskConfig(<<"daemon">>, <<"a">>, <<>>, RespawnNo)]

\* b starts with the long-running a
ScWith ==
    [t \in {"a", "b"} |->
        IF t = "a" THEN TaskConfig(<<"daemon">>, <<>>, <<>>, RespawnNo)
        ELSE TaskConfig(<<"ok">>, <<>>, <<"a">>, RespawnNo)]

\* one failing task with two retries
ScRetry ==
    [t \in {"a"} |-> TaskConfig(<<"fail">>, <<>>, <<>>, Retry(2))]

\* one task with two steps that is respawned without limit
ScSteps ==
    [t \in {"a"} |-> TaskConfig(<<"ok", "fail">>, <<>>, <<>>, Retry(0))]

Scenarios == {ScChain, ScWith, ScRetry, ScSteps}

Tasks == DOMAIN cfg

\* wait_for_dependencies gone wrong: the `with` list is not waited for
DepsAfter(t) ==
    [i \in 1..Len(cfg[t].after) |-> [queue |-> "after", name |-> cfg[t].after[i]]]

\* wait_for_dependencies gone wrong: only the first entry of `after` is waited for
DepsFirst(t) ==
    [i \in 1..(IF cfg[t].after = <<>> THEN 0 ELSE 1) |->
        [queue |-> "after", name |-> cfg[t].after[i]]]

\* config.after followed by config.with: the order wait_for_dependencies checks them in
Deps(t) ==
    [i \in 1..(Len(cfg[t].after) + Len(cfg[t].with)) |->
        IF i <= Len(cfg[t].after)
        THEN [queue |-> "after", name |-> cfg[t].after[i]]
        ELSE [queue |-> "with", name |-> cfg[t].with[i - Len(cfg[t].after)]]]

(***************************************************************************)
(* Task contexts (struct TaskContext)                                      *)
(***************************************************************************)
Range(f) == {f[i] : i \in DOMAIN f}

\* TaskContext::default
NewContext ==
    [state |-> Waiting, with |-> <<>>, after |-> <<>>, pid |-> 0,
     respawn_attempts |-> 0, waker |-> FALSE]

\* update_state gone wrong: a write of Running(_) wakes the `after` wakers as well
DrainedAll(c, state) ==
    CASE state.k = "Running" -> Range(c.with) \cup Range(c.after)
      [] state.k = "Done"    -> Range(c.after)
      [] OTHER               -> {}

\* the wakers TaskContext::update_state drains and wakes
Drained(c, state) ==
    CASE state.k = "Running" -> Range(c.with)
      [] state.k = "Done"    -> Range(c.after)
      [] OTHER               -> {}

\* the calls of wake_by_ref that TaskContext::update_state makes, in their order:
\* drain(..) goes through the list front to back, one call per entry
Signals(c, state) ==
    CASE state.k = "Running" -> c.with
      [] state.k = "Done"    -> c.after
      [] OTHER               -> <<>>

\* update_state gone wrong: the state is written and no waker list is drained
update_state_keep(c, state) == [c EXCEPT !.state = state]

\* TaskContext::update_state: the context after the write
update_state(c, state) ==
    [c EXCEPT !.state = state,
              !.with  = IF state.k = "Running" THEN <<>> ELSE @,
              !.after = IF state.k = "Done" THEN <<>> ELSE @]

\* wait_for! gone wrong: every dependency is waited for as a `with` dependency
MatchesRunning(queue, state) == state.k = "Running"

\* the match of wait_for! on the other context's state
Matches(queue, state) ==
    IF queue = "after" THEN state.k = "Done" ELSE state.k = "Running"

(***************************************************************************)
(* Observations                                                            *)
(***************************************************************************)
\* the tasks that are named in some `after` list, and in some `with` list
AfterNames == UNION {Range(cfg[b].after) : b \in Tasks} \cap Tasks
WithNames  == UNION {Range(cfg[b].with) : b \in Tasks} \cap Tasks

\* the `after` dependencies whose context state has been Done, and the `with`
\* dependencies whose context state has been Running, so far
Observe ==
    hist' = [hist EXCEPT
        !.everDone    = @ \cup {t \in AfterNames : ctx'[t].state.k = "Done"},
        !.everRunning = @ \cup {t \in WithNames : ctx'[t].state.k = "Running"}]

Up == hist.reboot = "none"

(***************************************************************************)
(* The lock of a context (Arc<RwLock<TaskContext>>).  Every holder keeps   *)
(* it for one access only, so the model does not hold it across steps: a   *)
(* driver that polls `context.write()` can find it taken exactly when      *)
(* another thread stands right before an access to the same context.       *)
(***************************************************************************)
\* another driver is about to check t as its dependency (wait_for!)
WaiterAt(u, t) ==
    /\ pc[u] = "loop" /\ drv[u].state.k = "Waiting"
    /\ drv[u].cur <= Len(Deps(u))
    /\ Deps(u)[drv[u].cur].name = t

\* the control plane is in a handler that reads or writes t's context
HandlerAt(t) == cp.pc \in {"kill1", "kill2", "sig", "upd", "deact", "wait", "start"}
                /\ cp.target = t

LockBusy(t) == HandlerAt(t) \/ \E u \in Tasks \ {t} : WaiterAt(u, t)

\* what a poll of t's own `context.write()` can find: FALSE free, TRUE taken
Contention(t) == IF LockBusy(t) THEN {FALSE, TRUE} ELSE {FALSE}

(***************************************************************************)
(* The driver (impl Future for Task)                                       *)
(***************************************************************************)
\* the driver returns Poll::Pending from poll_internal
Pending(t) == pc' = [pc EXCEPT ![t] = "prop"]
\* the loop goes round
Again(t) == pc' = pc

\* poll_internal up to the loop: read the context's state, leave the waker;
\* Pending at once when the lock is taken
PollBegin(t) ==
    /\ Up /\ pc[t] = "idle" /\ woken[t]
    /\ woken' = [woken EXCEPT ![t] = FALSE]
    /\ \E busy \in Contention(t) :
          IF busy
          THEN /\ Pending(t)
               /\ UNCHANGED <<drv, ctx>>
          ELSE /\ drv' = [drv EXCEPT ![t].state = ctx[t].state]
               /\ ctx' = [ctx EXCEPT ![t].waker = TRUE]
               /\ pc' = [pc EXCEPT ![t] = "loop"]
    /\ UNCHANGED <<cfg, procs, cp, pf>>
    /\ Observe

\* wait_for_dependencies gone wrong: no dependency is waited for
StepWaitingNone(t) ==
    /\ drv' = [drv EXCEPT ![t].state = Starting, ![t].cur = 1]
    /\ Again(t)
    /\ UNCHANGED <<ctx, woken, procs>>

\* S::Waiting: wait_for_dependencies, one dependency for each step
StepWaiting(t) ==
    LET deps == Deps(t)
        cur  == drv[t].cur
    IN  IF cur > Len(deps)
        THEN /\ drv' = [drv EXCEPT ![t].state = Starting, ![t].cur = 1]
             /\ Again(t)
             /\ UNCHANGED <<ctx, woken, procs>>
        ELSE LET d == deps[cur]
             IN  IF d.name \notin Tasks
                 THEN /\ drv' = [drv EXCEPT ![t].cur = 1]
                      /\ Pending(t)
                      /\ UNCHANGED <<ctx, woken, procs>>
                 ELSE IF Matches(d.queue, ctx[d.name].state)
                 THEN /\ drv' = [drv EXCEPT ![t].cur = cur + 1]
                      /\ Again(t)
                      /\ UNCHANGED <<ctx, woken, procs>>
                 ELSE /\ Len(ctx[d.name][d.queue]) < MaxWakers
                      /\ ctx' = [ctx EXCEPT ![d.name][d.queue] = Append(@, t)]
                      /\ drv' = [drv EXCEPT ![t].cur = 1]
                      /\ Pending(t)
                      /\ UNCHANGED <<woken, procs>>

\* Task::run_command with no child in hand: spawn, record the pid, await the status.
\* When the lock is taken at the write of the pid, the future is dropped there,
\* and the child it had spawned with it
SpawnCommand(t, x, kind, busy) ==
    CASE kind = "empty" ->
            /\ drv' = [drv EXCEPT ![t].state = Running(x + 1)]
            /\ Again(t)
            /\ UNCHANGED <<ctx, woken, procs>>
      [] kind = "bad" ->
            /\ drv' = [drv EXCEPT ![t].state = Failed]
            /\ Again(t)
            /\ UNCHANGED <<ctx, woken, procs>>
      [] OTHER ->
            /\ Len(procs) < MaxProcs
            /\ procs' = Append(procs, [owner |-> t, kind |-> kind, step |-> x,
                                       alive |-> TRUE, ok |-> FALSE, sig |-> {},
                                       seen |-> FALSE, reaped |-> FALSE])
            /\ IF busy
               THEN UNCHANGED <<ctx, drv>>
               ELSE /\ ctx' = [ctx EXCEPT ![t].pid = Len(procs) + 1]
                    /\ drv' = [drv EXCEPT ![t].process = Len(procs) + 1]
            /\ Pending(t)
            /\ UNCHANGED woken

\* child.status() is Ok(status) with status.success(); it is an Err when the exit
\* status has been collected by another waitpid (ECHILD)
StatusOk(p) == procs[p].ok /\ ~procs[p].reaped

\* Task::run_command with a child in hand: await its status.  On success self.state
\* is Done before the pid is cleared; the future is dropped there when the lock is taken
AwaitCommand(t, x, busy) ==
    LET p == drv[t].process
    IN  IF procs[p].alive
        THEN /\ Pending(t)
             /\ UNCHANGED <<ctx, drv, woken, procs>>
        ELSE IF StatusOk(p)
        THEN /\ procs' = [procs EXCEPT ![p].seen = TRUE]
             /\ IF busy
                THEN /\ drv' = [drv EXCEPT ![t].state = Done]
                     /\ Pending(t)
                     /\ UNCHANGED ctx
                ELSE /\ ctx' = [ctx EXCEPT ![t].pid = 0]
                     /\ drv' = [drv EXCEPT ![t].process = 0, ![t].state = Running(x + 1)]
                     /\ Again(t)
             /\ UNCHANGED woken
        ELSE /\ procs' = [procs EXCEPT ![p].seen = TRUE]
             /\ drv' = [drv EXCEPT ![t].state = Failed]
             /\ Again(t)
             /\ UNCHANGED <<ctx, woken>>

\* Task::run_command
run_command(t, x, kind, busy) ==
    IF drv[t].process = 0 THEN SpawnCommand(t, x, kind, busy) ELSE AwaitCommand(t, x, busy)

\* S::Running(x): Task::running
StepRunning(t, busy) ==
    LET x == drv[t].state.i
    IN  IF x + 1 <= Len(cfg[t].cmd)
        THEN run_command(t, x, cfg[t].cmd[x + 1], busy)
        ELSE /\ drv' = [drv EXCEPT ![t].state = Done]
             /\ Again(t)
             /\ UNCHANGED <<ctx, woken, procs>>

\* S::Terminating: Task::wait_for_terminate.  self.state is Terminated before the
\* pid is cleared; the future is dropped there when the lock is taken
wait_for_terminate(t, busy) ==
    LET p == drv[t].process
    IN  IF p = 0
        THEN /\ drv' = [drv EXCEPT ![t].state = Terminated]
             /\ Again(t)
             /\ UNCHANGED <<ctx, woken, procs>>
        ELSE IF procs[p].alive
        THEN /\ Pending(t)
             /\ UNCHANGED <<ctx, drv, woken, procs>>
        ELSE /\ procs' = [procs EXCEPT ![p].seen = TRUE]
             /\ IF busy
                THEN /\ drv' = [drv EXCEPT ![t].state = Terminated]
                     /\ Pending(t)
                     /\ UNCHANGED ctx
                ELSE /\ ctx' = [ctx EXCEPT ![t].pid = 0]
                     /\ drv' = [drv EXCEPT ![t].process = 0, ![t].state = Terminated]
                     /\ Again(t)
             /\ UNCHANGED woken

\* respawn_inner gone wrong: the attempts are counted but never compared
respawn_inner_nocap(t, amount, busy) ==
    IF busy
    THEN /\ Pending(t)
         /\ UNCHANGED <<ctx, drv, woken, procs>>
    ELSE /\ ctx' = [ctx EXCEPT ![t].respawn_attempts = @ + 1]
         /\ drv' = [drv EXCEPT ![t].state = Waiting]
         /\ Again(t)
         /\ UNCHANGED <<woken, procs>>

\* respawn_inner gone wrong: Retry(0) is counted like any other amount
respawn_inner_counted(t, amount, busy) ==
    IF busy \/ ctx[t].respawn_attempts >= amount
    THEN /\ Pending(t)
         /\ UNCHANGED <<ctx, drv, woken, procs>>
    ELSE /\ ctx' = [ctx EXCEPT ![t].respawn_attempts = @ + 1]
         /\ drv' = [drv EXCEPT ![t].state = Waiting]
         /\ Again(t)
         /\ UNCHANGED <<woken, procs>>

\* Task::respawn_inner; the future is dropped when the lock is taken
respawn_inner(t, amount, busy) ==
    IF amount # 0 /\ (busy \/ ctx[t].respawn_attempts >= amount)
    THEN /\ Pending(t)
         /\ UNCHANGED <<ctx, drv, woken, procs>>
    ELSE /\ ctx' = [ctx EXCEPT ![t].respawn_attempts =
                        IF amount # 0 THEN @ + 1 ELSE @]
         /\ drv' = [drv EXCEPT ![t].state = Waiting]
         /\ Again(t)
         /\ UNCHANGED <<woken, procs>>

\* S::Failed | S::Terminated: Task::respawn
respawn(t, busy) ==
    IF cfg[t].respawn.k = "No"
    THEN /\ Pending(t)
         /\ UNCHANGED <<ctx, drv, woken, procs>>
    ELSE respawn_inner(t, cfg[t].respawn.amount, busy)

\* Created, the state force-start writes: the driver starts over from Waiting
StepCreated(t) ==
    /\ drv' = [drv EXCEPT ![t].state = Waiting]
    /\ Again(t)
    /\ UNCHANGED <<ctx, woken, procs>>

\* one turn of the loop of poll_internal
poll_internal(t, busy) ==
    CASE drv[t].state.k = "Waiting"     -> StepWaiting(t)
      [] drv[t].state.k = "Created"     -> StepCreated(t)
      [] drv[t].state.k = "Starting"    ->
            /\ drv' = [drv EXCEPT ![t].state = Running(0)]
            /\ Again(t)
            /\ UNCHANGED <<ctx, woken, procs>>
      [] drv[t].state.k = "Running"     -> StepRunning(t, busy)
      [] drv[t].state.k = "Terminating" -> wait_for_terminate(t, busy)
      [] drv[t].state.k \in {"Failed", "Terminated"} -> respawn(t, busy)
      [] OTHER ->
            /\ Pending(t)
            /\ UNCHANGED <<ctx, drv, woken, procs>>

PollStep(t) ==
    /\ Up /\ pc[t] = "loop"
    /\ \E busy \in Contention(t) : poll_internal(t, busy)
    /\ UNCHANGED <<cfg, cp, pf>>
    /\ Observe

\* Task::propagate_state: publish the driver's state and wake the waiters it frees;
\* nothing is published when the lock is taken
propagate_state(t, busy) ==
    IF busy
    THEN UNCHANGED <<ctx, woken>>
    ELSE /\ ctx' = [ctx EXCEPT ![t] = update_state(@, drv[t].state)]
         /\ woken' = [u \in DOMAIN woken |->
                         woken[u] \/ u \in Drained(ctx[t], drv[t].state)]

Propagate(t) ==
    /\ Up /\ pc[t] = "prop"
    /\ \E busy \in Contention(t) : propagate_state(t, busy)
    /\ pc' = [pc EXCEPT ![t] = "idle"]
    /\ UNCHANGED <<cfg, drv, procs, cp, pf>>
    /\ Observe

(***************************************************************************)
(* Child processes                                                         *)
(***************************************************************************)
\* the exit statuses a child can end with
ExitOk(p) ==
    CASE "KILL" \in procs[p].sig -> {FALSE}
      [] "TERM" \in procs[p].sig -> IF procs[p].kind = "ok" THEN {TRUE, FALSE} ELSE {FALSE}
      [] procs[p].kind = "ok"   -> {TRUE}
      [] procs[p].kind = "fail" -> {FALSE}
      [] OTHER                  -> {}

\* a child exits; the driver awaiting its status is woken
ChildExit(p) ==
    /\ Up /\ procs[p].alive
    /\ \E ok \in ExitOk(p) :
          procs' = [procs EXCEPT ![p].alive = FALSE, ![p].ok = ok]
    /\ woken' = [u \in DOMAIN woken |->
                    woken[u] \/ (u = procs[p].owner /\ drv[u].process = p)]
    /\ UNCHANGED <<cfg, ctx, drv, pc, cp, pf>>
    /\ Observe

\* the signal task of init::main: on SIGCHLD it collects the exit status of the
\* child with waitpid, unless the driver's await has collected it already
Reap(p) ==
    /\ Up /\ ~procs[p].alive /\ ~procs[p].seen /\ ~procs[p].reaped
    /\ procs' = [procs EXCEPT ![p].reaped = TRUE]
    /\ UNCHANGED <<cfg, ctx, drv, pc, woken, cp, pf>>
    /\ Observe

(***************************************************************************)
(* The control plane (core/src/perform_action.rs)                          *)
(***************************************************************************)
\* TaskContext::send_signal: the process table after the signal
send_signal(c, signal) ==
    IF c.pid # 0 /\ procs[c.pid].alive
    THEN [procs EXCEPT ![c.pid].sig = @ \cup {signal}]
    ELSE procs

\* TaskContext::update_state as the control plane calls it: a write of the state the
\* context already has is a no-op; any other write wakes the freed waiters and
\* nudges the task's own driver through the waker it left
CtlUpdateState(t, state) ==
    IF ctx[t].state = state
    THEN UNCHANGED <<ctx, woken>>
    ELSE /\ ctx' = [ctx EXCEPT ![t] = [update_state(@, state) EXCEPT !.waker = FALSE]]
         /\ woken' = [u \in DOMAIN woken |->
                        \/ woken[u]
                        \/ u \in Drained(ctx[t], state)
                        \/ (u = t /\ ctx[t].waker)]

\* get_context gone wrong: a name that is not in the map gets some task's context
get_context_any(name) ==
    [ok |-> TRUE, name |-> IF name \in Tasks THEN name ELSE CHOOSE t \in Tasks : TRUE]

\* get_context: the context of the name, or ActionError::TaskNotFound
get_context(name) ==
    IF name \in Tasks THEN [ok |-> TRUE, name |-> name]
    ELSE [ok |-> FALSE, name |-> name]

\* the reader between two lines, n lines read
CpIdle(n) == [pc |-> "idle", n |-> n, act |-> SystemAction("none"),
              target |-> "", todo |-> {}, err |-> "none"]

\* where perform goes on when kill returns
AfterKill(act, todo) ==
    CASE act.k = "Kill"       -> "idle"
      [] act.k = "Deactivate" -> "deact"
      [] act.k = "Restart"    -> "wait"
      [] act.k = "System"     -> IF todo = {} THEN "join" ELSE "killall"

\* perform returns to the reader, or goes on at pc; at "join" every future of
\* kill_all has run its kill and awaits the conclusion of its task or its timer
Continue(c, to) ==
    CASE to = "idle" -> CpIdle(c.n)
      [] to = "join" -> [c EXCEPT !.pc = "join", !.todo = Tasks \ {"builtin::ctl::daemon"}]
      [] OTHER       -> [c EXCEPT !.pc = to]

\* the arm of perform's match that the parsed action selects: where the handler
\* starts, or the error it returns with
Dispatch(a) ==
    CASE a.k = "System" ->
            IF a.command = "poweroff"
            THEN [pc |-> IF Tasks \ {"builtin::ctl::daemon"} = {} THEN "reboot" ELSE "killall",
                  target |-> "", todo |-> Tasks \ {"builtin::ctl::daemon"}, err |-> "none"]
            ELSE [pc |-> "reboot", target |-> "", todo |-> {}, err |-> "none"]
      [] ~get_context(Join(a.task)).ok ->
            [pc |-> "idle", target |-> "", todo |-> {}, err |-> "TaskNotFound"]
      [] a.k = "Start" ->
            [pc |-> "start", target |-> get_context(Join(a.task)).name, todo |-> {},
             err |-> "none"]
      [] OTHER ->
            [pc |-> "kill1", target |-> get_context(Join(a.task)).name, todo |-> {},
             err |-> "none"]

\* perform up to its first await: parse the line and select the handler; err is the
\* error perform returns with at once
perform(s) ==
    LET r == from_str(s)
    IN  IF ~r.ok
        THEN [pc |-> "idle", act |-> r.v, target |-> "", todo |-> {}, err |-> r.err]
        ELSE LET d == Dispatch(r.v)
             IN  [pc |-> d.pc, act |-> r.v, target |-> d.target, todo |-> d.todo,
                  err |-> d.err]

Names == {<<"a">>, <<"b">>, <<"z">>}
Verbs == {kw_kill, kw_deactivate, kw_restart, kw_start,
          kw_force \o kw_kill, kw_force \o kw_deactivate,
          kw_force \o kw_restart, kw_force \o kw_start}
BadLines == {kw_kill, <<"s","t","o","p",sp,"a">>, kw_start \o <<"a">>,
             kw_system \o <<sp>> \o <<"r","e","b","o","o","t">>}
CtlLines ==
    {v \o <<sp>> \o n : v \in Verbs, n \in Names}
    \cup {kw_system \o <<sp>> \o c : c \in {kw_poweroff, kw_restart, kw_halt}}
    \cup BadLines

\* fee1dead: the reboot system call; perform makes it in the same run, with no
\* await before it, once the arm of the system action has nothing left to wait for
fee1dead(command) == hist' = [hist EXCEPT !.reboot = command]

\* wait_for_commands: the reader takes the next line of the pipe and performs it;
\* err is the error of the last line, which the reader logs before it reads on
CtlRead(line) ==
    /\ Up /\ cp.pc = "idle" /\ cp.n < MaxLines
    /\ UNCHANGED <<cfg, ctx, drv, pc, woken, procs, pf>>
    /\ LET r == perform(line)
       IN  /\ cp' = IF r.err # "none" THEN [CpIdle(cp.n + 1) EXCEPT !.err = r.err]
                    ELSE [pc |-> r.pc, n |-> cp.n + 1, act |-> r.act,
                          target |-> r.target, todo |-> r.todo, err |-> "none"]
           /\ IF r.err = "none" /\ r.pc = "reboot"
              THEN fee1dead(r.act.command)
              ELSE Observe

\* kill: the two reads of the state that let it return early
KillCheck ==
    /\ Up /\ cp.pc \in {"kill1", "kill2"}
    /\ LET state == ctx[cp.target].state
       IN  IF cp.pc = "kill1"
           THEN cp' = Continue(cp, IF has_concluded(state)
                                   THEN AfterKill(cp.act, cp.todo) ELSE "kill2")
           ELSE cp' = Continue(cp, IF is_waiting(state)
                                   THEN AfterKill(cp.act, cp.todo) ELSE "sig")
    /\ UNCHANGED <<cfg, ctx, drv, pc, woken, procs, pf>>
    /\ Observe

\* kill: the signal
KillSignal ==
    /\ Up /\ cp.pc = "sig"
    /\ procs' = send_signal(ctx[cp.target], IF cp.act.force THEN "KILL" ELSE "TERM")
    /\ cp' = [cp EXCEPT !.pc = "upd"]
    /\ UNCHANGED <<cfg, ctx, drv, pc, woken, pf>>
    /\ Observe

\* kill gone wrong: the forced kill writes Terminating like the other
KillStateSoft(force) == Terminating

\* kill: the state it writes
KillState(force) == IF force THEN Concluded("Terminated") ELSE Terminating

\* kill: the write of the state
KillUpdate ==
    /\ Up /\ cp.pc = "upd"
    /\ CtlUpdateState(cp.target, KillState(cp.act.force))
    /\ cp' = Continue(cp, AfterKill(cp.act, cp.todo))
    /\ UNCHANGED <<cfg, drv, pc, procs, pf>>
    /\ Observe

\* start: the state it writes
StartState(force) == IF force THEN Created ELSE Waiting

\* perform after kill_by_name: Deactivate's write, Restart's wait, and start
PerformRest ==
    /\ Up /\ cp.pc \in {"deact", "wait", "start"}
    /\ CASE cp.pc = "deact" ->
              /\ CtlUpdateState(cp.target, Concluded("Deactivated"))
              /\ cp' = CpIdle(cp.n)
         [] cp.pc = "wait" ->
              /\ has_concluded(ctx[cp.target].state)
              /\ cp' = [cp EXCEPT !.pc = "start"]
              /\ UNCHANGED <<ctx, woken>>
         [] cp.pc = "start" ->
              /\ CtlUpdateState(cp.target, StartState(cp.act.force))
              /\ cp' = CpIdle(cp.n)
    /\ UNCHANGED <<cfg, drv, pc, procs, pf>>
    /\ Observe

\* kill_all: the kill of the next task
KillAll(t) ==
    /\ Up /\ cp.pc = "killall" /\ t \in cp.todo
    /\ cp' = [cp EXCEPT !.pc = "kill1", !.target = t, !.todo = @ \ {t}]
    /\ hist' = [hist EXCEPT !.killed = @ \cup {t}]
    /\ UNCHANGED <<cfg, ctx, drv, pc, woken, procs, pf>>

\* kill_all: a future of join_all ends; the call of fee1dead follows the last
JoinDone(t) ==
    /\ cp' = [cp EXCEPT !.todo = @ \ {t}, !.pc = IF cp.todo = {t} THEN "reboot" ELSE "join"]
    /\ IF cp.todo = {t} THEN fee1dead(cp.act.command) ELSE Observe

\* kill_all: wait_for_conclusion returns for a task that has concluded
KillAllConcluded(t) ==
    /\ Up /\ cp.pc = "join" /\ t \in cp.todo
    /\ has_concluded(ctx[t].state)
    /\ UNCHANGED <<cfg, ctx, drv, pc, woken, procs, pf>>
    /\ JoinDone(t)

\* kill_all gone wrong: no timer bounds the kill and the wait
KillAllNoTimer == FALSE

\* kill_all: the timers of 1000 ms, all set in the first poll of join_all, fire, and
\* each select! that still waits drops its kill and its wait; fee1dead follows
KillAllTimeout ==
    /\ Up /\ cp.pc = "join"
    /\ cp' = [cp EXCEPT !.todo = {}, !.pc = "reboot"]
    /\ fee1dead(cp.act.command)
    /\ UNCHANGED <<cfg, ctx, drv, pc, woken, procs, pf>>

(***************************************************************************)
(* The supervisor                                                          *)
(***************************************************************************)
PfOff == [phase |-> "off"]

NewTask == [state |-> Waiting, process |-> 0, cur |-> 1]

\* the supervisor after start-up, one driver per configured task, none polled yet
InitSys(scenarios) ==
    /\ cfg \in scenarios
    /\ ctx = [t \in DOMAIN cfg |-> NewContext]
    /\ drv = [t \in DOMAIN cfg |-> NewTask]
    /\ pc = [t \in DOMAIN cfg |-> "idle"]
    /\ woken = [t \in DOMAIN cfg |-> TRUE]
    /\ procs = <<>>
    /\ cp = CpIdle(0)
    /\ hist = [everDone |-> {}, everRunning |-> {}, killed |-> {}, reboot |-> "none"]

InitWith(scenarios) == InitSys(scenarios) /\ pf = PfOff

Init == InitWith(Scenarios)

Driver ==
    \/ \E t \in Tasks : PollBegin(t)
    \/ \E t \in Tasks : PollStep(t)
    \/ \E t \in Tasks : Propagate(t)
    \/ \E p \in DOMAIN procs : ChildExit(p)

Control ==
    \/ \E line \in CtlLines : CtlRead(line)
    \/ KillCheck
    \/ KillSignal
    \/ KillUpdate
    \/ PerformRest
    \/ \E t \in Tasks : KillAll(t)
    \/ \E t \in Tasks : KillAllConcluded(t)
    \/ KillAllTimeout

Next == Driver \/ Control

Spec == Init /\ [][Next]_vars

(***************************************************************************)
(* The wire format on its own: an Action is formatted (alfad-ctl writes    *)
(* `action.to_string()` to the pipe) and the text is parsed back           *)
(* (wait_for_commands hands the line to perform, which calls from_str).    *)
(***************************************************************************)
\* task names without spaces or newlines
PfNames == {<<"a">>, <<"b">>, <<"a","b">>, <<"z","-","1">>, kw_start}

\* the values of enum Action
Actions ==
    {TaskAction(k, n, f) : k \in {"Kill", "Deactivate", "Start", "Restart"},
                           n \in PfNames, f \in BOOLEAN}
    \cup {SystemAction(c) : c \in {"poweroff", "restart", "halt"}}

InitAction ==
    /\ InitSys({ScRetry})
    /\ \E a \in Actions : pf = [phase |-> "in", a |-> a]

\* alfad-ctl: the action is formatted for the pipe
FormatAction ==
    /\ pf.phase = "in"
    /\ pf' = [phase |-> "fmt", a |-> pf.a, s |-> to_string(pf.a)]
    /\ UNCHANGED <<cfg, ctx, drv, pc, woken, procs, cp, hist>>

\* perform: the line is parsed
ParseAction ==
    /\ pf.phase = "fmt"
    /\ pf' = [phase |-> "out", a |-> pf.a, s |-> pf.s, r |-> from_str(pf.s)]
    /\ UNCHANGED <<cfg, ctx, drv, pc, woken, procs, cp, hist>>

NextAction == FormatAction \/ ParseAction

SpecAction == InitAction /\ [][NextAction]_vars

\* C6: for every Action value, parsing the text that formatting produced succeeds
\* and yields the same variant with the same task, force flag and sub-command
C6_RoundTrip == pf.phase = "out" => pf.r = ParseOk(pf.a)

(***************************************************************************)
(* The control lines                                                       *)
(***************************************************************************)
\* the lines `deactivate <task>` and `force-deactivate <task>` for the tasks that exist
DeactivateLines ==
    {v \o <<sp>> \o n : v \in {kw_deactivate, kw_force \o kw_deactivate},
                        n \in {m \in Names : Join(m) \in Tasks}}

\* C7: handling `deactivate <task>` or `force-deactivate <task>` for an existing task
\* starts the handler of the Deactivate action (and so differs from `kill <task>`),
\* the handler that ends with the state Concluded(Deactivated)
C7_DeactivateDistinct ==
    [][\A line \in DeactivateLines :
          CtlRead(line) => cp'.act.k = "Deactivate" /\ cp'.act.task = split_once(line).right]_vars

\* the control lines, split at the first space
LineParts == [line \in CtlLines |-> split_once(line)]

\* a line that is no well-formed action, or that names a task that does not exist:
\* read off the text, not off the parser
IllFormed(line) ==
    LET c == LineParts[line]
    IN  \/ ~c.found
        \/ c.left \notin Verbs \cup {kw_system}
        \/ c.left = kw_system /\ c.right \notin {kw_poweroff, kw_restart, kw_halt}
        \/ c.left \in Verbs /\ Join(c.right) \notin Tasks

\* C8: a line that is no well-formed action or names an absent task makes perform
\* return an error and changes nothing (no context, no child, no driver, no signal);
\* the reader stands ready for the next line.  (Every step that reads a line is
\* of that kind, or else it is the reading of no such line.)
C8_ErrorChangesNothing ==
    [][cp'.n # cp.n =>
          \/ /\ cp'.err # "none"
             /\ cp' = [CpIdle(cp.n + 1) EXCEPT !.err = cp'.err]
             /\ UNCHANGED <<ctx, drv, pc, woken, procs>>
          \/ \A line \in CtlLines : ~(IllFormed(line) /\ CtlRead(line))]_vars

\* an erroneous line has been read while a child was running, and the reader is idle
C8_Witness ==
    /\ cp.pc = "idle" /\ cp.err \in {"SyntaxError", "ActionNotFound", "TaskNotFound"}
    /\ \E p \in DOMAIN procs : procs[p].alive

LiveChildren(t) == {p \in DOMAIN procs : procs[p].owner = t /\ procs[p].alive}

\* C3: no task ever has more than one spawned child that has not exited
C3_OneChild == \A t \in Tasks : Cardinality(LiveChildren(t)) <= 1

(***************************************************************************)
(* The drivers on their own: no line ever arrives on the pipe              *)
(***************************************************************************)
SpecDriver == Init /\ [][Driver]_vars

\* the children spawned for t so far
Spawned(t, pt) == {p \in DOMAIN pt : pt[p].owner = t}

\* C4: with Retry(max), max > 0, and no control line, the attempt counter (one for
\* each return to Waiting) never exceeds max, and once it stands at max with the
\* context state Failed or Terminated, that state stays and no child is spawned
C4_RetryCap ==
    [][\A t \in Tasks :
          cfg[t].respawn.k = "Retry" /\ cfg[t].respawn.amount > 0 =>
              /\ ctx'[t].respawn_attempts <= cfg[t].respawn.amount
              /\ ( /\ ctx[t].respawn_attempts = cfg[t].respawn.amount
                   /\ ctx[t].state.k \in {"Failed", "Terminated"} )
                 => /\ ctx'[t].state = ctx[t].state
                    /\ Spawned(t, procs') = Spawned(t, procs)]_vars

\* a task with Retry(max) has used up its attempts and lies Failed
C4_Witness ==
    \E t \in Tasks :
        /\ cfg[t].respawn.k = "Retry" /\ cfg[t].respawn.amount > 0
        /\ ctx[t].respawn_attempts = cfg[t].respawn.amount
        /\ ctx[t].state.k = "Failed" /\ pc[t] = "idle" /\ ~woken[t]

(***************************************************************************)
(* kill                                                                    *)
(***************************************************************************)
\* the signal kill sends
KillSignalOf(force) == IF force THEN "KILL" ELSE "TERM"

\* C9: once kill is past its checks, it sends SIGTERM to the recorded child and then
\* writes Terminating; forced, it sends SIGKILL and then writes Concluded(Terminated);
\* these are the only changes it makes, so the forced kill never writes Terminating
C9_Kill ==
    [][cp' # cp /\ cp.pc \in {"kill1", "kill2", "sig", "upd"} =>
          LET t == cp.target
              p == ctx[t].pid
          IN  /\ cp.pc \in {"kill1", "kill2"} => ctx' = ctx /\ procs' = procs
              /\ cp.pc = "sig" =>
                    /\ ctx' = ctx
                    /\ p # 0 /\ procs[p].alive => KillSignalOf(cp.act.force) \in procs'[p].sig
              /\ cp.pc = "upd" =>
                    /\ procs' = procs
                    /\ ctx'[t].state = IF cp.act.force THEN Concluded("Terminated")
                                       ELSE Terminating]_vars

\* kill has handled a task that was Running(_): its recorded child has SIGTERM
\* pending and its state is Terminating
C9_Witness ==
    \E t \in Tasks :
        /\ cp.pc = "idle" /\ cp.n > 0
        /\ ctx[t].state = Terminating
        /\ ctx[t].pid # 0 /\ procs[ctx[t].pid].alive /\ "TERM" \in procs[ctx[t].pid].sig

\* kill has signalled the recorded child of t and written Terminating
Killed(t) ==
    /\ ctx[t].state = Terminating
    /\ ctx[t].pid # 0 /\ "TERM" \in procs[ctx[t].pid].sig

\* C10: after a non-forced kill of a running task (child signalled, state
\* Terminating), no step of the task's driver (no step but the control plane's)
\* makes the context state Failed or Done: the exit of the killed child is
\* published as Concluded(Terminated)
C10_KillEndsTerminated ==
    [][\A t \in Tasks :
          cp' = cp /\ Killed(t) => ctx'[t].state.k \notin {"Failed", "Done"}]_vars

(***************************************************************************)
(* perform seen from its match: the Action is given, not a line.  This is  *)
(* the only way into the arm of Action::Deactivate.                        *)
(***************************************************************************)
\* the actions on tasks
TaskActions ==
    {TaskAction(k, n, f) : k \in {"Kill", "Deactivate", "Start", "Restart"},
                           n \in Names, f \in BOOLEAN}

\* perform from its match on: the arm of the action is run
CtlPerform(a) ==
    /\ Up /\ cp.pc = "idle" /\ cp.n < MaxLines
    /\ LET d == Dispatch(a)
       IN  cp' = IF d.err # "none" THEN [CpIdle(cp.n + 1) EXCEPT !.err = d.err]
                 ELSE [pc |-> d.pc, n |-> cp.n + 1, act |-> a,
                       target |-> d.target, todo |-> d.todo, err |-> "none"]
    /\ UNCHANGED <<cfg, ctx, drv, pc, woken, procs, pf>>
    /\ Observe

NextDirect ==
    \/ Driver
    \/ \E a \in TaskActions : CtlPerform(a)
    \/ KillCheck
    \/ KillSignal
    \/ KillUpdate
    \/ PerformRest

SpecDirect == InitWith({ScRetry, ScSteps}) /\ [][NextDirect]_vars

RestartStarts ==
    cp.pc = "start" /\ cp.act.k = "Restart" /\ cp' # cp

\* C11: the start of a restart is applied only after the kill step and the wait for
\* conclusion, and so never while the target's state is Running(_) or Terminating
C11_RestartOrder ==
    [][RestartStarts => ctx[cp.target].state.k \notin {"Running", "Terminating"}]_vars

(***************************************************************************)
(* start and force-start, with the scheduling of the executor: every driver that can *)
(* take a step is polled in the end, every child that can exit does, and   *)
(* the control plane finishes the handler it is in                         *)
(***************************************************************************)
\* two tasks that wait for each other
ScCycle ==
    [t \in {"a", "b"} |->
        TaskConfig(<<"ok">>, <<IF t = "a" THEN "b" ELSE "a">>, <<>>, RespawnNo)]

\* the lines `start <task>` and `force-start <task>`
StartLines ==
    {v \o <<sp>> \o n : v \in {kw_start, kw_force \o kw_start}, n \in Names}

\* the supervisor when no other line arrives
NextStart ==
    \/ Driver
    \/ \E line \in StartLines : CtlRead(line)
    \/ PerformRest

\* smol's executor runs every woken task, and every handler runs to its end
Fairness ==
    /\ \A t \in {"a", "b", "builtin::ctl::daemon"} :
          WF_vars(t \in Tasks /\ (PollBegin(t) \/ PollStep(t) \/ Propagate(t)))
    /\ \A p \in 1..MaxProcs : WF_vars(p \in DOMAIN procs /\ ChildExit(p))
    /\ WF_vars(KillCheck \/ KillSignal \/ KillUpdate \/ PerformRest
                  \/ (\E t \in Tasks : KillAll(t))
                  \/ (\E t \in Tasks : KillAllConcluded(t))
                  \/ KillAllTimeout)

SpecForceStart ==
    InitWith({ScCycle, ScChain}) /\ [][NextStart]_vars /\ Fairness

\* start is about to write for `force-start t`, t is Waiting and some dependency
\* of t does not match
ForceStartUnsatisfied(t) ==
    /\ cp.pc = "start" /\ cp.act.k = "Start" /\ cp.act.force /\ cp.target = t
    /\ ctx[t].state = Waiting
    /\ \E i \in DOMAIN Deps(t) :
          /\ Deps(t)[i].name \in Tasks
          /\ ~Matches(Deps(t)[i].queue, ctx[Deps(t)[i].name].state)

\* C12: `force-start t` on a task that is Waiting with an unsatisfied dependency
\* leads to t Running(_); so in the cycle of two tasks that wait for each other,
\* the force-started task runs
C12_ForceStartRuns ==
    \A t \in {"a", "b"} :
        (t \in Tasks /\ ForceStartUnsatisfied(t)) ~> (ctx[t].state.k = "Running")

(***************************************************************************)
(* start and force-start of a task that runs                               *)
(***************************************************************************)
SpecStart == InitWith({ScSteps, ScWith}) /\ [][NextStart]_vars

\* C13: `start t` or `force-start t` for a task whose child runs neither interrupts
\* the step that executes nor runs it again: whenever the driver of a task goes
\* round its loop in Running(x) with a live child in hand, that child is the child
\* of step x
C13_StartLeavesStep ==
    \A t \in Tasks :
        ( /\ pc[t] = "loop" /\ drv[t].state.k = "Running"
          /\ drv[t].process # 0 /\ procs[drv[t].process].alive )
        => procs[drv[t].process].step = drv[t].state.i

(***************************************************************************)
(* The attempt counter                                                     *)
(***************************************************************************)
\* the handler of `restart`, `force-restart` or `force-start` takes its last step
ManualRestartEnds ==
    /\ cp.pc = "start" /\ cp' # cp
    /\ cp.act.k = "Restart" \/ (cp.act.k = "Start" /\ cp.act.force)

\* C14: when `restart t`, `force-restart t` or `force-start t` has been handled,
\* the attempt counter of t is 0
C14_ManualRestartResets ==
    [][ManualRestartEnds => ctx'[cp.target].respawn_attempts = 0]_vars

(***************************************************************************)
(* The system actions                                                      *)
(***************************************************************************)
\* a long-running task next to the task of the control plane
ScCtl ==
    [t \in {"a", "builtin::ctl::daemon"} |-> TaskConfig(<<"daemon">>, <<>>, <<>>, RespawnNo)]

\* the lines `system poweroff`, `system restart` and `system halt`
SystemLines == {kw_system \o <<sp>> \o c : c \in {kw_poweroff, kw_restart, kw_halt}}

\* the supervisor when no other line arrives
NextSystem ==
    \/ Driver
    \/ \E line \in SystemLines : CtlRead(line)
    \/ KillCheck
    \/ KillSignal
    \/ KillUpdate
    \/ \E t \in Tasks : KillAll(t)
    \/ \E t \in Tasks : KillAllConcluded(t)
    \/ KillAllTimeout

SpecSystem == InitWith({ScWith, ScCtl}) /\ [][NextSystem]_vars /\ Fairness

\* C15: the reboot system call of a system action is made only when kill_all has
\* called kill (not forced) for every task but builtin::ctl::daemon, and kill_all
\* never calls kill for builtin::ctl::daemon
C15_RebootAfterKillAll ==
    [][/\ hist'.reboot # hist.reboot => hist.killed = Tasks \ {"builtin::ctl::daemon"}
       /\ "builtin::ctl::daemon" \notin hist'.killed
       /\ cp.act.k = "System" =>
             \A p \in DOMAIN procs : procs'[p].sig \subseteq procs[p].sig \cup {"TERM"}]_vars

\* C16: every system action that perform has begun reaches the reboot system call
\* with its sub-command, whatever the tasks do: the wait for a task that does not
\* conclude ends with its timer
C16_SystemReachesReboot ==
    \A c \in {"poweroff", "restart", "halt"} :
        (cp.act = SystemAction(c)) ~> (hist.reboot = c)

\* the power-off has been called while a task that kill_all had signalled and waited
\* for was still Terminating, its child alive
C16_Witness ==
    /\ hist.reboot = "poweroff"
    /\ \E t \in hist.killed :
          /\ ctx[t].state = Terminating
          /\ ctx[t].pid # 0 /\ procs[ctx[t].pid].alive /\ "TERM" \in procs[ctx[t].pid].sig

(***************************************************************************)
(* Dependencies on tasks that do not exist                                 *)
(***************************************************************************)
\* a names the absent z in `after`, next to a task with two steps
ScMissingAfter ==
    [t \in {"a", "b"} |->
        IF t = "a" THEN TaskConfig(<<"ok">>, <<"z">>, <<>>, RespawnNo)
        ELSE TaskConfig(<<"ok", "ok">>, <<>>, <<>>, RespawnNo)]

\* a names b and the absent z in `with`, b runs for long
ScMissingWith ==
    [t \in {"a", "b"} |->
        IF t = "a" THEN TaskConfig(<<"ok">>, <<>>, <<"b", "z">>, RespawnNo)
        ELSE TaskConfig(<<"daemon">>, <<>>, <<>>, RespawnNo)]

SpecMissing == InitWith({ScMissingAfter, ScMissingWith}) /\ [][Driver]_vars

\* the tasks that name a task that does not exist
MissingDep == {t \in Tasks : \E i \in DOMAIN Deps(t) : Deps(t)[i].name \notin Tasks}

DeactivateActions == {TaskAction("Deactivate", n, f) : n \in Names, f \in BOOLEAN}

\* the supervisor when perform is given Deactivate actions only
NextDeactivate ==
    \/ Driver
    \/ \E a \in DeactivateActions : CtlPerform(a)
    \/ KillCheck
    \/ KillSignal
    \/ KillUpdate
    \/ PerformRest

SpecDeactivate == InitWith({ScChain, ScWith}) /\ [][NextDeactivate]_vars /\ Fairness

\* t is Waiting and a task it depends on is Concluded(Deactivated)
DependsOnDeactivated(t) ==
    /\ ctx[t].state = Waiting
    /\ \E i \in DOMAIN Deps(t) :
          /\ Deps(t)[i].name \in Tasks
          /\ ctx[Deps(t)[i].name].state = Concluded("Deactivated")

AtRespawn(t) == pc[t] = "loop" /\ drv[t].state.k \in {"Failed", "Terminated"}

\* C19: a task with Retry(0) that goes round its loop Failed or Terminated goes on
\* in Waiting, each time, and its attempt counter stays what it was at the start
C19_RetryZero ==
    [][\A t \in Tasks :
          cfg[t].respawn = Retry(0) =>
              /\ ctx'[t].respawn_attempts = 0
              /\ AtRespawn(t) /\ <<drv[t], pc[t]>>' # <<drv[t], pc[t]>> =>
                    drv'[t].state = Waiting /\ pc'[t] = "loop"]_vars

\* a task with Retry(0) is back in Waiting with the child in hand that it has
\* seen fail, after perform has handled an action, the counter at 0
C19_Witness ==
    \E t \in Tasks :
        /\ cfg[t].respawn = Retry(0)
        /\ pc[t] = "loop" /\ drv[t].state = Waiting
        /\ drv[t].process # 0 /\ procs[drv[t].process].seen /\ ~procs[drv[t].process].ok
        /\ ctx[t].respawn_attempts = 0 /\ cp.n > 0

\* one task whose payload succeeds, with one retry
ScRetryOk ==
    [t \in {"a"} |-> TaskConfig(<<"ok">>, <<>>, <<>>, Retry(1))]

SpecRespawn == InitWith({ScRetry, ScSteps, ScRetryOk}) /\ [][NextDirect]_vars

\* the driver of t goes round its loop with a concluded state other than Deactivated
AtConclusion(t) == pc[t] = "loop" /\ drv[t].state.k \in {"Done", "Failed", "Terminated"}

\* t has attempts left: Retry(0), or Retry(max) with fewer than max attempts counted
AttemptsLeft(t) ==
    /\ cfg[t].respawn.k = "Retry"
    /\ cfg[t].respawn.amount = 0 \/ ctx[t].respawn_attempts < cfg[t].respawn.amount

\* C20: a driver that goes round its loop Done, Failed or Terminated goes on in
\* Waiting, an attempt counted when max > 0, if the task has attempts left; if it
\* has none (respawn No, or max attempts counted) the driver leaves the loop
\* with the state it has
C20_Respawn ==
    [][\A t \in Tasks :
          AtConclusion(t) /\ <<drv[t], pc[t]>>' # <<drv[t], pc[t]>> =>
              IF AttemptsLeft(t)
              THEN /\ drv'[t].state = Waiting /\ pc'[t] = "loop"
                   /\ cfg[t].respawn.amount > 0 =>
                         ctx'[t].respawn_attempts = ctx[t].respawn_attempts + 1
              ELSE /\ drv'[t].state = drv[t].state /\ pc'[t] = "prop"
                   /\ ctx'[t].respawn_attempts = ctx[t].respawn_attempts]_vars

(***************************************************************************)
(* Start-up with every command succeeding                                  *)
(***************************************************************************)
\* b starts with a, and a is short
ScWithOk ==
    [t \in {"a", "b"} |->
        IF t = "a" THEN TaskConfig(<<"ok">>, <<>>, <<>>, RespawnNo)
        ELSE TaskConfig(<<"ok">>, <<>>, <<"a">>, RespawnNo)]

\* b runs after a, and both are short
ScAfterOk ==
    [t \in {"a", "b"} |->
        IF t = "a" THEN TaskConfig(<<"ok">>, <<>>, <<>>, RespawnNo)
        ELSE TaskConfig(<<"ok">>, <<"a">>, <<>>, RespawnNo)]

\* the drivers alone, every woken driver polled and every child exiting in the end
SpecStartup == InitWith({ScWithOk, ScAfterOk}) /\ [][Driver]_vars /\ Fairness

\* C21: in an acyclic configuration with every dependency present, every command
\* succeeding and no control line, every task is Done in the end, also when a
\* `with` dependency has started and concluded before its dependent checks it
C21_AllDone == <>(\A t \in Tasks : ctx[t].state = Done)

(***************************************************************************)
(* Marker tasks (group::<g>, feature::<t>)                                 *)
(***************************************************************************)
\* Payload::Marker: a payload with nothing to run
Marker == <<>>

\* a and b are the members of group g
ScGroup ==
    [t \in {"a", "b", "group::g"} |->
        IF t = "group::g" THEN TaskConfig(Marker, <<"a", "b">>, <<>>, RespawnNo)
        ELSE TaskConfig(<<"ok">>, <<>>, <<>>, RespawnNo)]

\* a provides feature f, and b runs after the feature
ScFeature ==
    [t \in {"a", "b", "feature::f"} |->
        CASE t = "feature::f" -> TaskConfig(Marker, <<"a">>, <<>>, RespawnNo)
          [] t = "a"          -> TaskConfig(<<"ok">>, <<>>, <<>>, RespawnNo)
          [] OTHER            -> TaskConfig(<<"ok">>, <<"feature::f">>, <<>>, RespawnNo)]

SpecMarker == InitWith({ScGroup, ScFeature}) /\ [][Driver]_vars

Markers == {t \in Tasks : cfg[t].cmd = Marker}

\* C22: a marker never spawns a child; its driver enters Done from Running(0) only
\* and runs no other step; and neither its driver nor its context is Done before
\* every task of its `after` list has been Done
C22_Marker ==
    [][\A m \in Markers :
          /\ Spawned(m, procs') = {}
          /\ drv'[m].state.k = "Running" => drv'[m].state = Running(0)
          /\ (drv'[m].state = Done /\ drv[m].state # Done) => drv[m].state = Running(0)
          /\ (drv'[m].state = Done \/ ctx'[m].state = Done)
                => Range(cfg[m].after) \subseteq hist'.everDone]_vars

\* a marker is Done, after every task of its `after` list
C22_Witness ==
    \E m \in Markers :
        /\ ctx[m].state = Done /\ cfg[m].after # <<>>
        /\ \A d \in Range(cfg[m].after) : ctx[d].state = Done

(***************************************************************************)
(* Ordering of the configuration at start-up (core/src/ordering.rs).       *)
(* Names are sequences of characters, and a HashMap is a function whose    *)
(* values come out in any order.                                           *)
(***************************************************************************)
MaxConfigs == 2    \* task files read in one run

None    == [some |-> FALSE]
Some(x) == [some |-> TRUE, v |-> x]

\* struct TaskConfigYaml; cmd is "Service" or "Marker"
TaskConfigYaml(name, cmd, before, with, after, group, provides) ==
    [name |-> name, cmd |-> cmd, before |-> before, with |-> with, after |-> after,
     group |-> group, provides |-> provides]

\* TaskConfigYaml { name, cmd: PayloadYaml::Marker, ..Default::default() }
NewMarker(name) == TaskConfigYaml(name, "Marker", <<>>, <<>>, <<>>, None, <<>>)

\* format!("group::{group}") and format!("feature::{feature}")
GroupName(group)     == <<"g","r","o","u","p",":",":">> \o group
FeatureName(feature) == <<"f","e","a","t","u","r","e",":",":">> \o feature

\* HashMap::into_values().collect(): the values, in every order they can come out
into_values(map) ==
    LET n == Cardinality(DOMAIN map)
    IN  {[i \in 1..n |-> map[p[i]]] :
            p \in {q \in [1..n -> DOMAIN map] : \A k \in DOMAIN map : \E i \in 1..n : q[i] = k}}

\* map.entry(name).or_insert_with(marker).after(&config.name)
EntryAfter(map, name, task) ==
    IF name \in DOMAIN map
    THEN [map EXCEPT ![name].after = Append(@, task)]
    ELSE (name :> [NewMarker(name) EXCEPT !.after = <<task>>]) @@ map

\* map.insert gone wrong: a feature that is already provided keeps its first producer
InsertKeep(map, name, task) ==
    IF name \in DOMAIN map THEN map
    ELSE (name :> [NewMarker(name) EXCEPT !.after = <<task>>]) @@ map

\* conf.after(&config.name); map.insert(name, conf)
InsertAfter(map, name, task) ==
    (name :> [NewMarker(name) EXCEPT !.after = <<task>>]) @@ map

\* the first loop of construct_markers, from configs[i] on
RECURSIVE GroupMarkers(_, _, _)
GroupMarkers(configs, i, map) ==
    IF i > Len(configs) THEN map
    ELSE GroupMarkers(configs, i + 1,
            IF configs[i].group.some
            THEN EntryAfter(map, GroupName(configs[i].group.v), configs[i].name)
            ELSE map)

\* the inner loop over config.provides, from provides[j] on
RECURSIVE Provided(_, _, _)
Provided(config, j, map) ==
    IF j > Len(config.provides) THEN map
    ELSE Provided(config, j + 1,
            InsertAfter(map, FeatureName(config.provides[j]), config.name))

\* the second loop of construct_markers, from configs[i] on
RECURSIVE FeatureMarkers(_, _, _)
FeatureMarkers(configs, i, map) ==
    IF i > Len(configs) THEN map
    ELSE FeatureMarkers(configs, i + 1, Provided(configs[i], 1, map))

\* construct_markers: the lists it can return
construct_markers(configs) ==
    into_values(FeatureMarkers(configs, 1, GroupMarkers(configs, 1, <<>>)))

\* task files: a name, maybe a group, and the features provided
OrdNames == {<<"a">>, <<"b">>, <<"c">>}
Tags     == {<<"f">>, <<"g">>}
YamlFiles ==
    {TaskConfigYaml(n, "Service", <<>>, <<>>, <<>>, g, p) :
        n \in OrdNames, g \in {None} \cup {Some(x) : x \in Tags},
        p \in {<<>>, <<<<"f">>>>, <<<<"g">>>>, <<<<"f">>, <<"g">>>>, <<<<"f">>, <<"f">>>>}}

\* the lists of at most n task files with unique names
Lists(S, n) ==
    {l \in UNION {[1..k -> S] : k \in 0..n} :
        \A i, j \in DOMAIN l : l[i].name = l[j].name => i = j}

InitMarkers ==
    /\ InitSys({ScRetry})
    /\ \E configs \in Lists(YamlFiles, MaxConfigs) : pf = [phase |-> "yaml", configs |-> configs]

\* read_yaml_configs: let groups = construct_markers(&configs)
ConstructMarkers ==
    /\ pf.phase = "yaml"
    /\ \E groups \in construct_markers(pf.configs) :
          pf' = [phase |-> "markers", configs |-> pf.configs, groups |-> groups]
    /\ UNCHANGED <<cfg, ctx, drv, pc, woken, procs, cp, hist>>

SpecConstruct == InitMarkers /\ [][ConstructMarkers]_vars

\* the indices of list l whose entry has the name n
Named(l, n) == {i \in DOMAIN l : l[i].name = n}

\* the groups and the provided features of the input
GroupsOf(configs)   == {c.group.v : c \in {d \in Range(configs) : d.group.some}}
FeaturesOf(configs) == UNION {Range(c.provides) : c \in Range(configs)}

\* the last task in input order that provides the feature
LastProducer(configs, feature) ==
    LET is == {i \in DOMAIN configs : feature \in Range(configs[i].provides)}
    IN  configs[CHOOSE i \in is : \A j \in is : j <= i].name

\* C23: construct_markers returns exactly one marker group::<g> for every group g
\* of the input, whose `after` holds the names of exactly the tasks with group g,
\* exactly one marker feature::<t> for every provided feature t, whose `after` is
\* the one producer that comes last in the input, and no other task
C23_Markers ==
    pf.phase = "markers" =>
        LET configs == pf.configs
            groups  == pf.groups
        IN  /\ \A g \in GroupsOf(configs) :
                \E i \in DOMAIN groups :
                    /\ Named(groups, GroupName(g)) = {i}
                    /\ groups[i].cmd = "Marker"
                    /\ Range(groups[i].after) =
                          {c.name : c \in {d \in Range(configs) : d.group = Some(g)}}
            /\ \A t \in FeaturesOf(configs) :
                \E i \in DOMAIN groups :
                    /\ Named(groups, FeatureName(t)) = {i}
                    /\ groups[i].cmd = "Marker"
                    /\ groups[i].after = <<LastProducer(configs, t)>>
            /\ Len(groups) = Cardinality(GroupsOf(configs)) + Cardinality(FeaturesOf(configs))

\* two tasks of one group that provide the same feature, and both markers returned
C23_Witness ==
    /\ pf.phase = "markers"
    /\ \E i, j \in DOMAIN pf.configs :
          /\ i < j /\ pf.configs[i].group.some
          /\ pf.configs[i].group = pf.configs[j].group
          /\ Range(pf.configs[i].provides) \cap Range(pf.configs[j].provides) # {}
    /\ Len(pf.groups) >= 2

(***************************************************************************)
(* resolve_before (feature "before")                                       *)
(***************************************************************************)
\* the orders in which a HashMap hands out its keys
KeyOrders(map) ==
    LET n == Cardinality(DOMAIN map)
    IN  {q \in [1..n -> DOMAIN map] : \A k \in DOMAIN map : \E i \in 1..n : q[i] = k}

\* configs.into_iter().map(|config| (config.name.clone(), RefCell::new(config))).collect()
ByName(configs) ==
    [n \in {configs[i].name : i \in DOMAIN configs} |->
        configs[CHOOSE i \in DOMAIN configs :
                    configs[i].name = n /\ \A j \in DOMAIN configs : configs[j].name = n => j <= i]]

Panicked == [panic |-> TRUE]
Returned(v) == [panic |-> FALSE, v |-> v]

\* the closure of for_each, from names[j] on, while the cell of n is mutably borrowed:
\* x.borrow_mut() on the cell that is already borrowed panics (BorrowMutError)
RECURSIVE DrainBefore(_, _, _, _)
DrainBefore(map, n, names, j) ==
    IF j > Len(names) THEN Returned([map EXCEPT ![n].before = <<>>])
    ELSE IF names[j] \in DOMAIN map
    THEN IF names[j] = n
         THEN Panicked
         ELSE DrainBefore([map EXCEPT ![names[j]].after = Append(@, n)], n, names, j + 1)
    ELSE DrainBefore(map, n, names, j + 1)

\* for (n, v) in map.iter(), from order[i] on
RECURSIVE ResolveLoop(_, _, _)
ResolveLoop(map, order, i) ==
    IF i > Len(order) THEN Returned(map)
    ELSE LET r == DrainBefore(map, order[i], map[order[i]].before, 1)
         IN  IF r.panic THEN Panicked ELSE ResolveLoop(r.v, order, i + 1)

\* resolve_before: what a call can end with
resolve_before(configs) ==
    LET map == ByName(configs)
    IN  UNION {LET r == ResolveLoop(map, order, 1)
               IN  IF r.panic THEN {Panicked} ELSE {Returned(l) : l \in into_values(r.v)}
               : order \in KeyOrders(map)}

\* task files that ask to run before others: themselves, another task, the absent z
BeforeFiles ==
    {TaskConfigYaml(n, "Service", b, <<>>, a, None, <<>>) :
        n \in OrdNames,
        b \in {<<>>, <<<<"a">>>>, <<<<"b">>>>, <<<<"z">>>>, <<<<"b">>, <<"z">>>>,
                <<<<"c">>, <<"a">>>>},
        a \in {<<>>, <<<<"c">>>>}}

InitBefore ==
    /\ InitSys({ScRetry})
    /\ \E configs \in Lists(BeforeFiles, MaxConfigs) : pf = [phase |-> "yaml", configs |-> configs]

\* read_yaml_configs: let configs = resolve_before(configs)
ResolveBefore ==
    /\ pf.phase = "yaml"
    /\ \E r \in resolve_before(pf.configs) :
          pf' = [phase |-> "before", configs |-> pf.configs, r |-> r]
    /\ UNCHANGED <<cfg, ctx, drv, pc, woken, procs, cp, hist>>

SpecBefore == InitBefore /\ [][ResolveBefore]_vars

\* C24: for every list with unique names, resolve_before returns a list with every
\* input task exactly once and every `before` empty, where for every task A and
\* every B in A.before (B = A included) B.after contains A when B exists, and A is
\* still there when B does not
C24_ResolveBefore ==
    pf.phase = "before" =>
        /\ ~pf.r.panic
        /\ \A i \in DOMAIN pf.configs :
              LET A == pf.configs[i].name
              IN  /\ Cardinality(Named(pf.r.v, A)) = 1
                  /\ \A j \in DOMAIN pf.configs[i].before :
                        \A k \in Named(pf.r.v, pf.configs[i].before[j]) :
                            A \in Range(pf.r.v[k].after)
        /\ Len(pf.r.v) = Len(pf.configs)
        /\ \A k \in DOMAIN pf.r.v : pf.r.v[k].before = <<>>

(***************************************************************************)
(* sort.  TopologicalSort is the crate topological-sort: a map from each   *)
(* node to the number of its predecessors and the set of its successors;   *)
(* its iterator pops any node without predecessors.                        *)
(***************************************************************************)
MaxSort == 4       \* tasks handed to sort in one run

\* TaskConfigYaml::into_config
into_config(y) ==
    [name |-> y.name, payload |-> y.cmd, with |-> y.with, after |-> y.after,
     group |-> y.group]

is_marker(payload) == payload = "Marker"

\* Dependency::new()
NewDependency == [num_prec |-> 0, succ |-> {}]

\* TopologicalSort::add_dependency(prec, succ)
add_dependency(top, prec, succ) ==
    IF prec \in DOMAIN top /\ succ \in top[prec].succ
    THEN top
    ELSE LET t1 == IF prec \in DOMAIN top
                   THEN [top EXCEPT ![prec].succ = @ \cup {succ}]
                   ELSE (prec :> [NewDependency EXCEPT !.succ = {succ}]) @@ top
         IN  IF succ \in DOMAIN t1
             THEN [t1 EXCEPT ![succ].num_prec = @ + 1]
             ELSE (succ :> [NewDependency EXCEPT !.num_prec = 1]) @@ t1

\* TopologicalSort::remove(key)
RemoveNode(top, key) ==
    [k \in DOMAIN top \ {key} |->
        IF k \in top[key].succ THEN [top[k] EXCEPT !.num_prec = @ - 1] ELSE top[k]]

\* the iterator of TopologicalSort run to its end: every sequence of pops
RECURSIVE Pops(_)
Pops(top) ==
    LET ready == {k \in DOMAIN top : top[k].num_prec = 0}
    IN  IF ready = {} THEN {<<>>}
        ELSE UNION {{<<k>> \o s : s \in Pops(RemoveNode(top, k))} : k \in ready}

\* the inner loops of sort over t.after and then t.with, from deps[j] on
RECURSIVE AddEdges(_, _, _, _, _)
AddEdges(top, map, name, deps, j) ==
    IF j > Len(deps) THEN top
    ELSE AddEdges(IF deps[j] \in DOMAIN map THEN add_dependency(top, deps[j], name) ELSE top,
                  map, name, deps, j + 1)

\* for t in map.values(), from order[i] on: the list no_deps and the sorter
RECURSIVE SortLoop(_, _, _, _)
SortLoop(map, order, i, acc) ==
    IF i > Len(order) THEN acc
    ELSE LET t == map[order[i]]
         IN  SortLoop(map, order, i + 1,
                CASE t.after = <<>> /\ t.with = <<>> ->
                        [acc EXCEPT !.no_deps = Append(@, t.name)]
                  [] is_marker(t.payload) -> acc
                  [] OTHER ->
                        [acc EXCEPT !.sorter =
                            AddEdges(@, map, t.name, t.after \o t.with, 1)])

\* names.flat_map(|x| map.remove(&x)): the tasks taken out, and the map left
RECURSIVE TakeAll(_, _, _, _)
TakeAll(map, names, i, res) ==
    IF i > Len(names) THEN [res |-> res, map |-> map]
    ELSE IF names[i] \in DOMAIN map
    THEN TakeAll([k \in DOMAIN map \ {names[i]} |-> map[k]], names, i + 1,
                 Append(res, map[names[i]]))
    ELSE TakeAll(map, names, i + 1, res)

\* sort: the lists it can return
sort(configs) ==
    LET map == ByName(configs)
    IN  UNION {
          LET acc   == SortLoop(map, order, 1, [no_deps |-> <<>>, sorter |-> <<>>])
              first == TakeAll(map, acc.no_deps, 1, <<>>)
          IN  UNION {
                LET second == TakeAll(first.map, pops, 1, first.res)
                IN  {second.res \o rest : rest \in into_values(second.map)}
                : pops \in Pops(acc.sorter)}
          : order \in KeyOrders(map)}

\* the tasks handed to sort: services a, b, c with at most one dependency (another
\* task, itself, the feature marker, the absent z), and the marker of feature f
\* behind its producer
MarkerF == FeatureName(<<"f">>)
SortNames == OrdNames \cup {MarkerF}
SortDeps ==
    {[after |-> <<>>, with |-> <<>>]}
    \cup {[after |-> <<d>>, with |-> <<>>] : d \in SortNames \cup {<<"z">>}}
    \cup {[after |-> <<>>, with |-> <<<<"b">>>>]}
MarkerDeps == {[after |-> <<p>>, with |-> <<>>] : p \in {<<"a">>, <<"b">>}}

SortFile(n, d) ==
    into_config(TaskConfigYaml(n, IF n = MarkerF THEN "Marker" ELSE "Service",
                               <<>>, d.with, d.after, None, <<>>))

\* the lists of at most n names, each name once
NameLists(S, n) ==
    {l \in UNION {[1..k -> S] : k \in 0..n} : \A i, j \in DOMAIN l : l[i] = l[j] => i = j}

SortInputs(n) ==
    UNION {{[i \in DOMAIN ns |-> SortFile(ns[i], q[ns[i]])] :
                q \in {r \in [Range(ns) -> SortDeps] :
                          MarkerF \in Range(ns) => r[MarkerF] \in MarkerDeps}}
           : ns \in NameLists(SortNames, n)}

InitSort ==
    /\ InitSys({ScRetry})
    /\ \E configs \in SortInputs(MaxSort) : pf = [phase |-> "configs", configs |-> configs]

\* read_yaml_configs: let configs = sort(configs)
Sort ==
    /\ pf.phase = "configs"
    /\ \E res \in sort(pf.configs) :
          pf' = [phase |-> "sorted", configs |-> pf.configs, res |-> res]
    /\ UNCHANGED <<cfg, ctx, drv, pc, woken, procs, cp, hist>>

SpecSort == InitSort /\ [][Sort]_vars

\* the names in t.after and t.with
DepNames(t) == Range(t.after) \cup Range(t.with)

\* the tasks of the list that task n waits for, directly or through others
RECURSIVE Upstream(_, _, _)
Upstream(configs, seen, k) ==
    IF k = 0 THEN seen
    ELSE Upstream(configs,
                  seen \cup UNION {DepNames(configs[i]) \cap {configs[j].name : j \in DOMAIN configs}
                                     : i \in {h \in DOMAIN configs : configs[h].name \in seen}},
                  k - 1)

WaitsFor(configs, n) ==
    Upstream(configs, UNION {DepNames(configs[i]) \cap {configs[j].name : j \in DOMAIN configs}
                               : i \in Named(configs, n)}, Len(configs)) 

\* n is on a dependency cycle, or waits for a task that is
OnCycle(configs, n) ==
    \E c \in WaitsFor(configs, n) \cup {n} : c \in WaitsFor(configs, c)

\* the place of the task named n in the list
Place(l, n) == CHOOSE i \in DOMAIN l : l[i].name = n

\* C25: in the list sort returns, every task d of the input that is named in
\* t.after or t.with of a task t of the input comes before t, when neither is on or
\* behind a dependency cycle; markers included
C25_DependencyFirst ==
    pf.phase = "sorted" =>
        \A i, j \in DOMAIN pf.configs :
            LET t == pf.configs[i]
                d == pf.configs[j]
            IN  ( /\ d.name \in DepNames(t)
                  /\ ~OnCycle(pf.configs, d.name) /\ ~OnCycle(pf.configs, t.name) )
                => /\ Named(pf.res, d.name) # {} /\ Named(pf.res, t.name) # {}
                   /\ Place(pf.res, d.name) < Place(pf.res, t.name)

\* the sections of the returned list a task may stand in: 1 no dependency, 2 the
\* acyclic portion, 3 markers with dependencies, 4 the cyclic or orphaned rest
Sections(configs, t) ==
    CASE t.after = <<>> /\ t.with = <<>> -> {1}
      [] is_marker(t.payload) -> {3}
      [] OnCycle(configs, t.name) -> {4}
      [] \E d \in DepNames(t) : Named(configs, d) = {} -> {2, 4}
      [] OTHER -> {2}

Least(S) == CHOOSE x \in S : \A y \in S : x <= y
Most(S)  == CHOOSE x \in S : \A y \in S : y <= x

\* every task of the input stands exactly once in the returned list
SameTasks(configs, res) ==
    /\ Len(res) = Len(configs)
    /\ \A i \in DOMAIN configs : \E j \in DOMAIN res : res[j] = configs[i]

\* C26: for unique names, sort returns every input task exactly once, the tasks
\* without dependencies first, then the non-marker tasks of the acyclic portion,
\* then every marker with dependencies, then the cyclic or orphaned rest
C26_Sections ==
    pf.phase = "sorted" =>
        /\ SameTasks(pf.configs, pf.res)
        /\ \A i, j \in DOMAIN pf.res :
              i < j => Least(Sections(pf.configs, pf.res[i]))
                          <= Most(Sections(pf.configs, pf.res[j]))

\* C27: two tasks without dependencies stand in the returned list in the order
\* they have in the input list
C27_InputOrder ==
    pf.phase = "sorted" =>
        \A i, j \in DOMAIN pf.configs :
            ( /\ i < j
              /\ Sections(pf.configs, pf.configs[i]) = {1}
              /\ Sections(pf.configs, pf.configs[j]) = {1} )
            => Place(pf.res, pf.configs[i].name) < Place(pf.res, pf.configs[j].name)

(***************************************************************************)
(* The signal task and the drivers: who collects the exit status           *)
(***************************************************************************)
NextReaper ==
    \/ Driver
    \/ \E p \in DOMAIN procs : Reap(p)

SpecReaper == InitWith({ScAfterOk, ScSteps}) /\ [][NextReaper]_vars

\* C28: when the driver sees the exit of a child that exited with success, its
\* state for the step is not Failed, whether or not the signal task's waitpid came
\* first
C28_ReaperHarmless ==
    [][\A p \in DOMAIN procs :
          (~procs[p].seen /\ procs'[p].seen /\ procs[p].ok)
              => drv'[procs[p].owner].state.k # "Failed"]_vars

(***************************************************************************)
(* The steps of a payload                                                  *)
(***************************************************************************)
\* a has two steps, and b runs after a
ScTwoSteps ==
    [t \in {"a", "b"} |->
        IF t = "a" THEN TaskConfig(<<"ok", "ok">>, <<>>, <<>>, RespawnNo)
        ELSE TaskConfig(<<"ok">>, <<"a">>, <<>>, RespawnNo)]

\* a starts with an empty command line, b with one that cannot be spawned
ScEmptyBad ==
    [t \in {"a", "b"} |->
        IF t = "a" THEN TaskConfig(<<"empty", "ok">>, <<>>, <<>>, RespawnNo)
        ELSE TaskConfig(<<"bad", "ok">>, <<>>, <<>>, RespawnNo)]

\* the first step of a fails
ScFailFirst ==
    [t \in {"a"} |-> TaskConfig(<<"fail", "ok">>, <<>>, <<>>, RespawnNo)]

SpecSteps == InitWith({ScTwoSteps, ScEmptyBad, ScFailFirst}) /\ [][Driver]_vars

\* the driver of t takes a turn of its loop in this step
Turn(t) == pc[t] = "loop" /\ (drv'[t] # drv[t] \/ pc'[t] # pc[t])

\* C29: with no control line, a turn of the driver at step i of n command lines
\* ends Done when i >= n, goes on to Running(i+1) without a spawn when the line is
\* empty, ends Failed without a spawn when the line cannot be spawned, goes on to
\* Running(i+1) when the child has exited with success and ends Failed when it has
\* exited otherwise; and a task that is Failed with Respawn::No runs no later step
C29_Steps ==
    [][\A t \in Tasks :
          /\ (Turn(t) /\ drv[t].state.k = "Running") =>
                LET i == drv[t].state.i
                    p == drv[t].process
                IN  CASE i >= Len(cfg[t].cmd) -> drv'[t].state = Done
                      [] p # 0 /\ ~procs[p].alive ->
                            drv'[t].state = IF procs[p].ok THEN Running(i + 1) ELSE Failed
                      [] p = 0 /\ cfg[t].cmd[i + 1] = "empty" ->
                            drv'[t].state = Running(i + 1) /\ procs' = procs
                      [] p = 0 /\ cfg[t].cmd[i + 1] = "bad" ->
                            drv'[t].state = Failed /\ procs' = procs
                      [] OTHER -> TRUE
          /\ (ctx[t].state = Failed /\ cfg[t].respawn.k = "No") =>
                /\ ctx'[t].state = Failed
                /\ Spawned(t, procs') = Spawned(t, procs)]_vars

(***************************************************************************)
(* Expansion of environment variables in an argument                       *)
(* (core/src/command_line/complex.rs).  An argument is a sequence of the   *)
(* characters "$", "A", "B" (identifier characters) and "/".               *)
(***************************************************************************)
MaxArg == 3        \* characters of an argument

MAX_ENVVAR_RECURSION == 100

\* the characters of the argument that [_a-zA-Z0-9] matches
IdentChars == {"A", "B"}

\* the end of the longest run of identifier characters that starts at s[i]
RECURSIVE IdentEnd(_, _)
IdentEnd(s, i) ==
    IF i < Len(s) /\ s[i + 1] \in IdentChars THEN IdentEnd(s, i + 1) ELSE i

\* env::var gone wrong: an unset variable is left as it stands
VarKept(env, name) == IF name \in DOMAIN env THEN env[name] ELSE <<"$">> \o name

\* env::var(name).unwrap_or_default()
Var(env, name) == IF name \in DOMAIN env THEN env[name] ELSE <<>>

\* FIND_ENVVAR.replace_all(haystack, ..) from s[i] on: every match of \$([_a-zA-Z0-9]+),
\* leftmost and longest, is replaced; the text put in is not searched again
RECURSIVE replace_all(_, _, _)
replace_all(s, i, env) ==
    IF i > Len(s) THEN <<>>
    ELSE IF s[i] = "$" /\ i < Len(s) /\ s[i + 1] \in IdentChars
    THEN LET k == IdentEnd(s, i + 1)
         IN  Var(env, SubSeq(s, i + 1, k)) \o replace_all(s, k + 1, env)
    ELSE <<s[i]>> \o replace_all(s, i + 1, env)

\* the arguments of at most n characters
Args(n) == UNION {[1..k -> {"$", "A", "B", "/"}] : k \in 0..n}

\* the environments: A and B are unset or hold one of a few values, among them
\* references to themselves and to each other
EnvValues == {<<>>, <<"/">>, <<"$", "A">>, <<"$", "B">>, <<"/", "$", "A">>}
Envs ==
    {[n \in ns |-> v[n]] : ns \in SUBSET {<<"A">>, <<"B">>},
                           v \in [{<<"A">>, <<"B">>} -> EnvValues]}

InitEnv ==
    /\ InitSys({ScRetry})
    /\ \E s \in Args(MaxArg), env \in Envs :
          pf = [phase |-> "expand", env |-> env, s |-> s, haystack |-> s, n |-> 0]

\* one pass of the loop of insert_envvars; the loop ends after
\* MAX_ENVVAR_RECURSION passes with Err(MaximumRecursion)
Pass ==
    /\ pf.phase = "expand"
    /\ LET new == replace_all(pf.haystack, 1, pf.env)
       IN  pf' = IF new = pf.haystack
                 THEN [pf EXCEPT !.phase = "Ok", !.n = @ + 1]
                 ELSE IF pf.n + 1 = MAX_ENVVAR_RECURSION
                 THEN [pf EXCEPT !.phase = "MaximumRecursion", !.n = @ + 1]
                 ELSE [pf EXCEPT !.haystack = new, !.n = @ + 1]
    /\ UNCHANGED <<cfg, ctx, drv, pc, woken, procs, cp, hist>>

SpecEnv == InitEnv /\ [][Pass]_vars

\* the references $IDENT in s to variables that are not set
UnsetRefs(s, env) ==
    {i \in DOMAIN s :
        /\ s[i] = "$" /\ i < Len(s) /\ s[i + 1] \in IdentChars
        /\ SubSeq(s, i + 1, IdentEnd(s, i + 1)) \notin DOMAIN env}

\* C30: insert_envvars makes at most MAX_ENVVAR_RECURSION passes; it returns Ok(s)
\* only for an s that one more pass leaves unchanged, with no reference to an unset
\* variable left in it; and it returns MaximumRecursion only after
\* MAX_ENVVAR_RECURSION passes that each changed the text
C30_Expansion ==
    /\ pf.n <= MAX_ENVVAR_RECURSION
    /\ pf.phase = "expand" => pf.n < MAX_ENVVAR_RECURSION
    /\ pf.phase = "Ok" =>
          /\ replace_all(pf.haystack, 1, pf.env) = pf.haystack
          /\ UnsetRefs(pf.haystack, pf.env) = {}
    /\ pf.phase = "MaximumRecursion" =>
          /\ pf.n = MAX_ENVVAR_RECURSION
          /\ replace_all(pf.haystack, 1, pf.env) # pf.haystack

\* two variables that refer to each other have ended the expansion with
\* MaximumRecursion
C30_Witness ==
    /\ pf.phase = "MaximumRecursion"
    /\ pf.s = <<"$", "A">>
    /\ DOMAIN pf.env = {<<"A">>, <<"B">>}
    /\ pf.env[<<"A">>] = <<"$", "B">> /\ pf.env[<<"B">>] = <<"$", "A">>

(***************************************************************************)
(* The order of the dependency checks (Task::wait_for_dependencies)        *)
(***************************************************************************)
\* b runs after the short c and starts with the long-running a
ScBoth ==
    [t \in {"a", "b", "c"} |->
        CASE t = "a" -> TaskConfig(<<"daemon">>, <<>>, <<>>, RespawnNo)
          [] t = "c" -> TaskConfig(<<"ok">>, <<>>, <<>>, RespawnNo)
          [] OTHER   -> TaskConfig(<<"ok">>, <<"c">>, <<"a">>, RespawnNo)]

SpecOrder == InitWith({ScBoth, ScChain, ScWith}) /\ [][Driver]_vars

\* the driver of t pushes its waker on the `queue` list of d in this step
Registers(t, d, queue) ==
    /\ Len(ctx'[d][queue]) = Len(ctx[d][queue]) + 1
    /\ ctx'[d][queue][Len(ctx'[d][queue])] = t

\* C31: a waiting driver registers a waker on an `after` dependency only once
\* every one of its `with` dependencies has been observed Running(_); with both
\* kinds unsatisfied its first waker is therefore on the `with` dependency
C31_WithFirst ==
    [][\A t \in Tasks, d \in Tasks :
          Registers(t, d, "after") =>
              \A i \in DOMAIN cfg[t].with :
                  cfg[t].with[i] \in hist.everRunning]_vars

(***************************************************************************)
(* The writes of a context's state (TaskContext::update_state)             *)
(***************************************************************************)
\* the drivers that this step wakes
Woke == {u \in Tasks : woken'[u] /\ ~woken[u]}

\* the drivers with a waker in list l that are not woken yet
Asleep(l) == {u \in Range(l) : ~woken[u]}

\* C32: a step that writes a new state to the context of t, from the driver or from
\* the control plane, leaves that state in the context, empties the `with` list and
\* wakes its wakers exactly when the state is Running(_), empties the `after` list
\* and wakes its wakers exactly when the state is Done, and leaves the other list
\* as it is; a propagate_state of the state the context already has changes no
\* context and wakes nobody
C32_UpdateState ==
    [][\A t \in Tasks :
          /\ ctx'[t].state # ctx[t].state =>
                LET new == ctx'[t].state
                IN  /\ ctx'[t].with  = IF new.k = "Running" THEN <<>> ELSE ctx[t].with
                    /\ ctx'[t].after = IF new = Done THEN <<>> ELSE ctx[t].after
                    /\ Woke \ {t} =
                          (CASE new.k = "Running" -> Asleep(ctx[t].with)
                             [] new = Done        -> Asleep(ctx[t].after)
                             [] OTHER             -> {}) \ {t}
          /\ (pc[t] = "prop" /\ pc'[t] = "idle") =>
                /\ ~LockBusy(t) => ctx'[t].state = drv[t].state
                /\ drv[t].state = ctx[t].state => ctx' = ctx /\ woken' = woken]_vars

\* a dependent that waited for t to be Done has been woken by the write of Done
C32_Witness ==
    \E t \in Tasks, u \in Tasks :
        /\ t \in Range(cfg[u].after)
        /\ ctx[t].state = Done /\ ctx[t].after = <<>>
        /\ ctx[u].waker /\ woken[u] /\ pc[u] = "idle" /\ ctx[u].state = Waiting

(***************************************************************************)
(* The waker registry of a context                                         *)
(***************************************************************************)
\* C35: a context whose state is Running(_) has an empty `with` waker list, and a
\* context whose state is Done has an empty `after` waker list
C35_NoLostWakeup ==
    \A t \in Tasks :
        /\ ctx[t].state.k = "Running" => ctx[t].with = <<>>
        /\ ctx[t].state = Done => ctx[t].after = <<>>

\* a dependent that waited for t to be Running(_) has been woken by the write of
\* Running(_), and t is still running
C35_Witness ==
    \E t \in Tasks, u \in Tasks :
        /\ t \in Range(cfg[u].with)
        /\ ctx[t].state.k = "Running" /\ ctx[t].with = <<>>
        /\ ctx[u].waker /\ woken[u] /\ pc[u] = "idle" /\ ctx[u].state = Waiting

(***************************************************************************)
(* The fan-out of a write (the drain of a waker list)                      *)
(***************************************************************************)
\* C33: a write that drains a waker list signals the wakers in the order of their
\* registration, which is the order of the list, and signals no waiting task twice
C33_Fanout ==
    [][\A t \in Tasks :
          ctx'[t].state # ctx[t].state =>
              LET s == Signals(ctx[t], ctx'[t].state)
              IN  \A i \in DOMAIN s, j \in DOMAIN s : s[i] = s[j] => i = j]_vars

(***************************************************************************)
(* The validation of the configuration (core/src/validate.rs).  A call of  *)
(* has_loop returns with its result and the lines it has logged.           *)
(***************************************************************************)
MaxValidate == 3   \* tasks handed to validate in one run

\* the map validate builds: name -> after followed by with
DepsMap(configs) ==
    [n \in {configs[i].name : i \in DOMAIN configs} |->
        LET e == configs[Most(Named(configs, n))] IN e.after \o e.with]

\* warn!: the name waits for itself, or for a loop
LoopWarning(name, visited) ==
    [level |-> "warn", name |-> name, visited |-> visited,
     what |-> IF Len(visited) = 1 THEN "itself" ELSE "loop"]

\* error!("No task named {name}")
NoTask(name) == [level |-> "error", name |-> name, visited |-> <<>>, what |-> "no task"]

RECURSIVE has_loop(_, _, _)
RECURSIVE AnyLoop(_, _, _, _)

\* has_loop gone wrong: only the first dependency of the list is followed
FirstLoop(list, i, map, visited) ==
    IF i > Len(list) \/ i > 1 THEN [ret |-> FALSE, log |-> <<>>]
    ELSE has_loop(list[i], map, visited)

\* list.iter().any(|b| has_loop(b.clone(), map, &visited)): from entry i on, stopping
\* at the first call that returns true
AnyLoop(list, i, map, visited) ==
    IF i > Len(list) THEN [ret |-> FALSE, log |-> <<>>]
    ELSE LET r == has_loop(list[i], map, visited)
         IN  IF r.ret THEN r
             ELSE LET rest == AnyLoop(list, i + 1, map, visited)
                  IN  [ret |-> rest.ret, log |-> r.log \o rest.log]

has_loop(name, map, visited) ==
    IF name \in Range(visited)
    THEN [ret |-> TRUE, log |-> <<LoopWarning(name, visited)>>]
    ELSE IF name \in DOMAIN map
    THEN AnyLoop(map[name], 1, map, Append(visited, name))
    ELSE [ret |-> FALSE, log |-> <<NoTask(name)>>]

\* validate: the list it returns and, for each task in turn, the call of has_loop
validate(configs) ==
    [res   |-> configs,
     calls |-> [i \in DOMAIN configs |-> has_loop(configs[i].name, DepsMap(configs), <<>>)]]

ValidateDeps ==
    {[after |-> a, with |-> w] :
        a \in {<<>>} \cup {<<d>> : d \in OrdNames \cup {<<"z">>}},
        w \in {<<>>, <<<<"a">>>>, <<<<"b">>>>}}

ValidateInputs(n) ==
    UNION {{[i \in DOMAIN ns |-> SortFile(ns[i], q[ns[i]])] : q \in [Range(ns) -> ValidateDeps]}
           : ns \in NameLists(OrdNames, n)}

InitValidate ==
    /\ InitSys({ScRetry})
    /\ \E configs \in ValidateInputs(MaxValidate) :
          pf = [phase |-> "parsed", configs |-> configs]

\* read_yaml_configs: let configs = validate::validate(configs)
Validate ==
    /\ pf.phase = "parsed"
    /\ LET r == validate(pf.configs)
       IN  pf' = [phase |-> "validated", configs |-> pf.configs, res |-> r.res,
                  calls |-> r.calls]
    /\ UNCHANGED <<cfg, ctx, drv, pc, woken, procs, cp, hist>>

SpecValidate == InitValidate /\ [][Validate]_vars /\ WF_vars(Validate)

\* the call logged a warning about a loop
Warned(call) == \E k \in DOMAIN call.log : call.log[k].level = "warn"

\* C34: validate returns for every list; the list it returns is the list it was
\* given; and the call of has_loop for a task returns true, with a warning logged,
\* exactly when a dependency cycle can be reached from the task over the names in
\* after and with
C34_Validate ==
    /\ <>(pf.phase = "validated")
    /\ [](pf.phase = "validated" =>
            /\ pf.res = pf.configs
            /\ \A i \in DOMAIN pf.configs :
                  /\ pf.calls[i].ret <=> OnCycle(pf.configs, pf.configs[i].name)
                  /\ Warned(pf.calls[i]) <=> pf.calls[i].ret)

\* three tasks validated: a names itself, b waits for a and so for a's loop, and c
\* names a task that is in no file
C34_Witness ==
    /\ pf.phase = "validated"
    /\ Len(pf.configs) = 3
    /\ \E i, j, k \in DOMAIN pf.configs :
          /\ pf.configs[i].name \in Range(pf.configs[i].after)
          /\ pf.configs[i].name \in Range(pf.configs[j].with) /\ j # i
          /\ pf.configs[k].after = <<<<"z">>>> /\ pf.configs[k].with = <<>>
          /\ pf.calls[i].ret /\ pf.calls[j].ret /\ ~pf.calls[k].ret

(***************************************************************************)
(* The driver's write after a write of the control plane                   *)
(***************************************************************************)
\* the control plane has written the state of t since the driver of t last read it:
\* the write took the waker that the read had left in the context
WrittenSinceRead(t) == pc[t] = "prop" /\ ~ctx[t].waker

\* C36: the propagate_state that ends a poll does not replace a state that the
\* control plane has written since the driver read the context
C36_NoStaleWrite ==
    [][\A t \in Tasks :
          (WrittenSinceRead(t) /\ pc'[t] = "idle") => ctx'[t].state = ctx[t].state]_vars

(***************************************************************************)
(* The progress of a run                                                   *)
(***************************************************************************)
\* C37: without respawn and without a control line a task has one run, and in it
\* the command of a step is spawned at most once
C37_StepOnce ==
    \A p \in DOMAIN procs, q \in DOMAIN procs :
        (procs[p].owner = procs[q].owner /\ procs[p].step = procs[q].step) => p = q

(***************************************************************************)
(* The child of a concluded task                                           *)
(***************************************************************************)
\* C38: a task whose context is Done, Failed, Terminated or Deactivated has no child
\* id in its context and no child handle in its driver
C38_NoChildWhenConcluded ==
    \A t \in Tasks :
        ctx[t].state.k \in {"Done", "Failed", "Terminated", "Deactivated"} =>
            ctx[t].pid = 0 /\ drv[t].process = 0

(***************************************************************************)
(* kill and the driver                                                     *)
(***************************************************************************)
\* the states kill leaves alone
Settled(s) == s.k \in {"Waiting", "Done", "Failed", "Terminated", "Deactivated"}

\* C39: a step of kill (of a kill, deactivate, restart or poweroff, forced or not)
\* sends no signal to, and does not change the state of, a task whose context is
\* Waiting or concluded at that step
C39_KillLeavesSettled ==
    [][(cp.pc \in {"kill1", "kill2", "sig", "upd"} /\ cp' # cp
        /\ Settled(ctx[cp.target].state))
          => ctx'[cp.target].state = ctx[cp.target].state /\ procs' = procs]_vars

(***************************************************************************)
(* The progress of the control plane                                       *)
(***************************************************************************)
\* the lines that name a verb and a task
TaskLines == {v \o <<sp>> \o n : v \in Verbs, n \in Names}

\* the supervisor when the lines on the pipe are task lines
NextTaskLines ==
    \/ Driver
    \/ \E line \in TaskLines : CtlRead(line)
    \/ KillCheck
    \/ KillSignal
    \/ KillUpdate
    \/ PerformRest

SpecTaskLines ==
    InitWith({ScMissingAfter, ScChain}) /\ [][NextTaskLines]_vars /\ Fairness

\* perform is in the handler of a line that names an existing task
InHandler == cp.pc \in {"kill1", "kill2", "sig", "upd", "deact", "wait", "start"}

\* C40: the handler of an accepted line for an existing task returns, and the reader
\* is back at the pipe for the next line
C40_HandlerReturns == InHandler ~> cp.pc = "idle"

====
